---------------------------- MODULE Spec2Model ----------------------------
(***************************************************************************)
(* A model of qr.py: the UPI payload builder (build_upi_payload), the      *)
(* cached QR renderer (QRService.create_qr) and the form handler (main).   *)
(*                                                                         *)
(* A Python str is a sequence of one-character strings.  A float is a      *)
(* record [cls, n]: cls "finite" carries the value n/16 (sixteenths are    *)
(* exact in binary floating point, and include exact ties such as 0.125    *)
(* for two-decimal rounding), and cls "inf", "-inf", "nan" are the         *)
(* non-finite floats, with n = 0.                                          *)
(***************************************************************************)
EXTENDS Integers, Sequences, FiniteSets, TLC

VARIABLES
    pc,        \* position of the modelled caller: "call" before, "done" after
    args,      \* arguments of the pending build_upi_payload call
    ret,       \* outcome of the build_upi_payload call
    data,      \* argument of the pending QRService.create_qr call
    cache,     \* st.cache_data store of create_qr: cache key -> stored value
    img,       \* outcome of the create_qr call
    upi_cfg,   \* DEFAULT_UPI_ID, read once from the environment
    widgets,   \* main: values of the form's input widgets
    run        \* main: the page the last script run left, and whether any
               \* run so far showed an error

vars == <<pc, args, ret, data, cache, img, upi_cfg, widgets, run>>

----------------------------------------------------------------------------
(* Bounds of the model *)

\* Longest generated payee address and note.
MaxLen == 2

\* Largest generated finite amount, in sixteenths.
MaxAmount16 == 5

----------------------------------------------------------------------------
(* Strings *)

\* The string of n copies of character c.
Rep(c, n) == [i \in 1..n |-> c]

\* All strings over alphabet A of length at most n.
StrsUpTo(A, n) == UNION {[1..k -> A] : k \in 0..n}

Contains(s, c) == \E i \in 1..Len(s) : s[i] = c

Count(s, c) == Cardinality({i \in 1..Len(s) : s[i] = c})

\* The flattening of a sequence of strings (divide and conquer).
RECURSIVE Concat(_)
Concat(ss) ==
    IF Len(ss) = 0 THEN <<>>
    ELSE IF Len(ss) = 1 THEN ss[1]
    ELSE LET h == Len(ss) \div 2
         IN  Concat(SubSeq(ss, 1, h)) \o Concat(SubSeq(ss, h + 1, Len(ss)))

\* seq joined with separator sep between consecutive elements.
Join(ss, sep) ==
    Concat([i \in 1..Len(ss) |-> IF i = 1 THEN ss[i] ELSE sep \o ss[i]])

\* Characters str.strip() removes.
Whitespace == {" ", "\t", "\n", "\r"}

\* str.strip(): leading and trailing whitespace removed.
strip(s) ==
    IF \A i \in 1..Len(s) : s[i] \in Whitespace THEN <<>>
    ELSE LET lo == CHOOSE i \in 1..Len(s) :
                       /\ s[i] \notin Whitespace
                       /\ \A j \in 1..(i - 1) : s[j] \in Whitespace
             hi == CHOOSE i \in 1..Len(s) :
                       /\ s[i] \notin Whitespace
                       /\ \A j \in (i + 1)..Len(s) : s[j] \in Whitespace
         IN  SubSeq(s, lo, hi)

----------------------------------------------------------------------------
(* urllib.parse.quote_plus / urlencode, as called at line 77 *)

Letters ==
    {"a","b","c","d","e","f","g","h","i","j","k","l","m",
     "n","o","p","q","r","s","t","u","v","w","x","y","z",
     "A","B","C","D","E","F","G","H","I","J","K","L","M",
     "N","O","P","Q","R","S","T","U","V","W","X","Y","Z"}

Digits == {"0","1","2","3","4","5","6","7","8","9"}

\* Characters quote never escapes.
AlwaysSafe == Letters \cup Digits \cup {"_", ".", "-", "~"}

\* ASCII codes of the other characters the model uses.
Ord ==
    [c \in {"\t", "\n", "\r", " ", "$", "%", "&", "+", "/", ":", "=", "?", "@"} |->
        CASE c = "\t" -> 9  [] c = "\n" -> 10 [] c = "\r" -> 13
          [] c = " "  -> 32 [] c = "$"  -> 36 [] c = "%"  -> 37
          [] c = "&"  -> 38 [] c = "+"  -> 43 [] c = "/"  -> 47
          [] c = ":"  -> 58 [] c = "="  -> 61 [] c = "?"  -> 63
          [] c = "@"  -> 64]

HexDigits ==
    <<"0","1","2","3","4","5","6","7","8","9","A","B","C","D","E","F">>

\* "%XX" with upper-case hexadecimal digits.
PercentEscape(c) ==
    <<"%", HexDigits[(Ord[c] \div 16) + 1], HexDigits[(Ord[c] % 16) + 1]>>

\* A variant that leaves "&" unescaped.
QuoteCharKeepsAmp(c) ==
    IF c \in AlwaysSafe \cup {"&"} THEN <<c>>
    ELSE IF c = " " THEN <<"+">>
    ELSE PercentEscape(c)

\* quote_plus on one character: safe characters pass, space becomes "+",
\* everything else is percent-escaped.
QuoteChar(c) ==
    IF c \in AlwaysSafe THEN <<c>>
    ELSE IF c = " " THEN <<"+">>
    ELSE PercentEscape(c)

quote_plus(s) == Concat([i \in 1..Len(s) |-> QuoteChar(s[i])])

\* A variant that emits the pairs in reverse order.
urlencodeReversed(params) ==
    Join([i \in 1..Len(params) |->
            LET p == params[Len(params) + 1 - i]
            IN  quote_plus(p[1]) \o <<"=">> \o quote_plus(p[2])],
         <<"&">>)

\* urlencode of a dict, given as the sequence of its (key, value) items in
\* insertion order: quote_plus(k) "=" quote_plus(v), joined by "&".
urlencode(params) ==
    Join([i \in 1..Len(params) |->
            quote_plus(params[i][1]) \o <<"=">> \o quote_plus(params[i][2])],
         <<"&">>)

----------------------------------------------------------------------------
(* Floats and f"{amount:.2f}" *)

Finite(n) == [cls |-> "finite", n |-> n]
PosInf == [cls |-> "inf", n |-> 0]
NegInf == [cls |-> "-inf", n |-> 0]
NaN == [cls |-> "nan", n |-> 0]

\* amount <= 0 on floats: every comparison with nan is False.
LeZero(a) ==
    CASE a.cls = "finite" -> a.n <= 0
      [] a.cls = "-inf"   -> TRUE
      [] a.cls = "inf"    -> FALSE
      [] a.cls = "nan"    -> FALSE

DigitChars == <<"0","1","2","3","4","5","6","7","8","9">>

\* The decimal numeral of a natural number.
RECURSIVE DecStr(_)
DecStr(n) ==
    IF n < 10 THEN <<DigitChars[n + 1]>>
    ELSE DecStr(n \div 10) \o <<DigitChars[(n % 10) + 1]>>

\* n sixteenths in hundredths, rounded half to even: 100 * n/16 = 25n/4.
Hundredths(n) ==
    LET q == (25 * n) \div 4
        r == (25 * n) % 4
    IN  IF r < 2 THEN q
        ELSE IF r > 2 THEN q + 1
        ELSE IF q % 2 = 0 THEN q ELSE q + 1

\* f"{amount:.2f}": the correctly rounded two-decimal numeral of a finite
\* float; "inf", "-inf" and "nan" for the non-finite ones.
FormatAmount(a) ==
    CASE a.cls = "inf"  -> <<"i","n","f">>
      [] a.cls = "-inf" -> <<"-","i","n","f">>
      [] a.cls = "nan"  -> <<"n","a","n">>
      [] OTHER ->
           LET m == IF a.n < 0 THEN -a.n ELSE a.n
               h == Hundredths(m)
           IN  (IF a.n < 0 THEN <<"-">> ELSE <<>>)
               \o DecStr(h \div 100)
               \o <<".", DigitChars[((h \div 10) % 10) + 1], DigitChars[(h % 10) + 1]>>

----------------------------------------------------------------------------
(* build_upi_payload *)

Raise(msg) == [kind |-> "error", uri |-> <<>>, msg |-> msg]
Return(uri) == [kind |-> "uri", uri |-> uri, msg |-> ""]
NoRet == [kind |-> "none", uri |-> <<>>, msg |-> ""]

\* A variant that only rejects the empty address.
InvalidUpiIdEmptyOnly(upi_id) == upi_id = <<>>

\* not upi_id or "@" not in upi_id
InvalidUpiId(upi_id) == upi_id = <<>> \/ ~Contains(upi_id, "@")

\* A variant that accepts zero.
InvalidAmountStrict(amount) ==
    CASE amount.cls = "finite" -> amount.n < 0
      [] amount.cls = "-inf"   -> TRUE
      [] OTHER                 -> FALSE

\* amount <= 0
InvalidAmount(amount) == LeZero(amount)

\* if note: (the truth value of a str: non-empty)
NoteTruthy(note) == note # <<>>

UpiPrefix == <<"u","p","i",":","/","/","p","a","y","?">>

build_upi_payload(upi_id, name, amount, currency, note) ==
    IF InvalidUpiId(upi_id) THEN Raise("Invalid UPI ID")
    ELSE IF InvalidAmount(amount) THEN Raise("Amount must be greater than zero")
    ELSE LET params == << <<<<"p","a">>, strip(upi_id)>>,
                          <<<<"p","n">>, strip(name)>>,
                          <<<<"a","m">>, FormatAmount(amount)>>,
                          <<<<"c","u">>, currency>> >>
                       \o (IF NoteTruthy(note)
                           THEN << <<<<"t","n">>, strip(note)>> >>
                           ELSE <<>>)
         IN  Return(UpiPrefix \o urlencode(params))


----------------------------------------------------------------------------
(* Reading a query string back: urllib.parse.parse_qsl with                *)
(* keep_blank_values=True, used to state what a generated URI contains.    *)

\* The elements of a finite set of integers in increasing order.
SortedSeq(S) ==
    [k \in 1..Cardinality(S) |->
        CHOOSE x \in S : Cardinality({y \in S : y < x}) = k - 1]

\* s.split(c)
SplitOn(s, c) ==
    LET cut == SortedSeq({0} \cup {i \in 1..Len(s) : s[i] = c} \cup {Len(s) + 1})
    IN  [k \in 1..(Len(cut) - 1) |-> SubSeq(s, cut[k] + 1, cut[k + 1] - 1)]

HexValue(c) ==
    IF c \in {"a","b","c","d","e","f"}
    THEN 10 + (CHOOSE k \in 0..5 : <<"a","b","c","d","e","f">>[k + 1] = c)
    ELSE CHOOSE k \in 0..15 : HexDigits[k + 1] = c

IsHex(c) == c \in Digits \cup {"A","B","C","D","E","F","a","b","c","d","e","f"}

\* Whether position i of s starts an escape "%XX" of a known character.
IsEscapeAt(s, i) ==
    /\ s[i] = "%"
    /\ i + 2 <= Len(s)
    /\ IsHex(s[i + 1]) /\ IsHex(s[i + 2])
    /\ \E c \in DOMAIN Ord : Ord[c] = 16 * HexValue(s[i + 1]) + HexValue(s[i + 2])

RECURSIVE UnquoteFrom(_, _)
UnquoteFrom(s, i) ==
    IF i > Len(s) THEN <<>>
    ELSE IF IsEscapeAt(s, i)
    THEN <<CHOOSE c \in DOMAIN Ord :
               Ord[c] = 16 * HexValue(s[i + 1]) + HexValue(s[i + 2])>>
         \o UnquoteFrom(s, i + 3)
    ELSE <<s[i]>> \o UnquoteFrom(s, i + 1)

\* unquote_plus: "+" to space, then the escapes resolved.
unquote_plus(s) ==
    UnquoteFrom([i \in 1..Len(s) |-> IF s[i] = "+" THEN " " ELSE s[i]], 1)

\* The part of a "k=v" segment before the first "=", and the part after it
\* ("" when the segment has no "=").
RawKey(seg) ==
    LET eq == {i \in 1..Len(seg) : seg[i] = "="}
    IN  IF eq = {} THEN seg
        ELSE SubSeq(seg, 1, (CHOOSE i \in eq : \A j \in eq : i <= j) - 1)

RawValue(seg) ==
    LET eq == {i \in 1..Len(seg) : seg[i] = "="}
    IN  IF eq = {} THEN <<>>
        ELSE SubSeq(seg, (CHOOSE i \in eq : \A j \in eq : i <= j) + 1, Len(seg))

\* The non-empty "&"-separated segments of a query string.
Segments(q) == SelectSeq(SplitOn(q, "&"), LAMBDA seg : seg # <<>>)

\* The decoded (key, value) pairs of a query string, in order.
parse_qsl(q) ==
    LET segs == Segments(q)
    IN  [k \in 1..Len(segs) |->
            <<unquote_plus(RawKey(segs[k])), unquote_plus(RawValue(segs[k]))>>]

\* The query string of a URI: everything after the first "?".
QueryOf(uri) ==
    LET qm == {i \in 1..Len(uri) : uri[i] = "?"}
    IN  IF qm = {} THEN <<>>
        ELSE SubSeq(uri, (CHOOSE i \in qm : \A j \in qm : i <= j) + 1, Len(uri))

\* The raw keys of a URI's query, in order.
KeysOf(uri) ==
    LET segs == SplitOn(QueryOf(uri), "&")
    IN  [k \in 1..Len(segs) |-> RawKey(segs[k])]

\* The raw (still encoded) values of a URI's query, in order.
ValuesOf(uri) ==
    LET segs == SplitOn(QueryOf(uri), "&")
    IN  [k \in 1..Len(segs) |-> RawValue(segs[k])]

\* A value in query encoding: unreserved characters, "+", and "%" only as
\* the start of an escape with two upper-case hexadecimal digits.
IsQueryEncoded(v) ==
    \A i \in 1..Len(v) :
        \/ v[i] \in AlwaysSafe \cup {"+"}
        \/ /\ v[i] = "%"
           /\ i + 2 <= Len(v)
           /\ v[i + 1] \in Digits \cup {"A","B","C","D","E","F"}
           /\ v[i + 2] \in Digits \cup {"A","B","C","D","E","F"}

K_pa == <<"p","a">>
K_pn == <<"p","n">>
K_am == <<"a","m">>
K_cu == <<"c","u">>
K_tn == <<"t","n">>

----------------------------------------------------------------------------
(* Inputs of the payload builder *)

INR == <<"I","N","R">>

ShopUpi == <<"s","h","o","p","@","u","p","i">>
MyShop == <<"M","y"," ","S","h","o","p">>

UpiIds ==
    StrsUpTo({"a", "@"}, MaxLen)
        \cup {<<"n","o","a","t","s","i","g","n">>, ShopUpi,
              <<" ">>, <<" ","a","@","a"," ">>}

Names == {MyShop, <<>>, <<" ","a","&","=","%"," ">>}

Notes ==
    StrsUpTo({" ", "&"}, MaxLen)
        \cup {<<"n","&">>, <<"%","4","0">>, <<" ","a","+","b"," ">>}

Amounts ==
    {Finite(n) : n \in (-1..MaxAmount16) \cup {-80, 160, 2400}}
        \cup {PosInf, NegInf, NaN}

Currencies == {INR, <<"R","$">>}

BuildInputs ==
    [upi_id : UpiIds, name : Names, amount : Amounts,
     currency : Currencies, note : Notes]

\* buildPaymentURI("shop@upi", "My Shop", 150.0, "INR", "")
ExampleArgs ==
    [upi_id |-> ShopUpi, name |-> MyShop, amount |-> Finite(2400),
     currency |-> INR, note |-> <<>>]

ExampleUri ==
    <<"u","p","i",":","/","/","p","a","y","?","p","a","=","s","h","o","p","%","4","0","u","p","i","&","p","n","=","M","y","+","S","h","o","p","&","a","m","=","1","5","0",".","0","0","&","c","u","=","I","N","R">>

----------------------------------------------------------------------------
(* The parts of the state the payload builder does not use *)

NoImg == [kind |-> "none", png |-> <<>>, msg |-> "", computed |-> FALSE]
NoArgs ==
    [upi_id |-> <<>>, name |-> <<>>, amount |-> Finite(0),
     currency |-> <<>>, note |-> <<>>]
NoWidgets == [merchant |-> <<>>, amount |-> Finite(0), note |-> <<>>]
NoPage ==
    [clicked |-> FALSE, built |-> NoRet, qr_called |-> FALSE, qr |-> NoImg,
     error_shown |-> FALSE, error |-> "",
     image_shown |-> FALSE, image |-> <<>>,
     download_shown |-> FALSE, download |-> <<>>,
     crashed |-> FALSE]
NoRun == [page |-> NoPage, had_error |-> FALSE]

RenderIdle ==
    /\ data = <<>>
    /\ cache = <<>>
    /\ img = NoImg

AppIdle ==
    /\ upi_cfg = <<>>
    /\ widgets = NoWidgets
    /\ run = NoRun

----------------------------------------------------------------------------
(* Specification of the payload builder: one call on any input *)

Init ==
    /\ pc = "call"
    /\ args \in BuildInputs
    /\ ret = NoRet
    /\ RenderIdle
    /\ AppIdle

Build ==
    /\ pc = "call"
    /\ ret' = build_upi_payload(args.upi_id, args.name, args.amount,
                                args.currency, args.note)
    /\ pc' = "done"
    /\ UNCHANGED <<args, data, cache, img, upi_cfg, widgets, run>>

Next == Build

Spec == Init /\ [][Next]_vars

Returned == pc = "done" /\ ret.kind = "uri"

----------------------------------------------------------------------------
(* Claims about build_upi_payload *)

\* C1: a call whose payee address is empty or contains no "@" fails with
\* ValueError "Invalid UPI ID" and returns no URI, whatever the other
\* arguments are.
C1_InvalidAddressRejected ==
    (pc = "done" /\ (args.upi_id = <<>> \/ Count(args.upi_id, "@") = 0))
        => (ret.kind = "error" /\ ret.msg = "Invalid UPI ID" /\ ret.uri = <<>>)

\* C1 witness: an address without "@" was rejected although the amount was
\* not positive either.
C1_Witness ==
    /\ pc = "done"
    /\ args.upi_id # <<>>
    /\ Count(args.upi_id, "@") = 0
    /\ args.amount = Finite(0)
    /\ ret.msg = "Invalid UPI ID"

\* C2: a call with a valid payee address and an amount that is zero or
\* negative fails with ValueError "Amount must be greater than zero" and
\* returns no URI.
C2_NonPositiveAmountRejected ==
    (/\ pc = "done"
     /\ args.upi_id # <<>>
     /\ Count(args.upi_id, "@") > 0
     /\ args.amount.cls \in {"finite", "-inf"}
     /\ (args.amount.cls = "finite" => args.amount.n <= 0))
        => (/\ ret.kind = "error"
            /\ ret.msg = "Amount must be greater than zero"
            /\ ret.uri = <<>>)

\* C2 witness: amount 0 with the address "shop@upi" was rejected.
C2_Witness ==
    /\ pc = "done"
    /\ args.upi_id = ShopUpi
    /\ args.amount = Finite(0)
    /\ ret.msg = "Amount must be greater than zero"

\* C3: every returned URI starts with "upi://pay?"; its query lists the keys
\* pa, pn, am, cu in that order and then, only when present, tn as the last
\* key, each key once; every value is in query encoding ("@" as %40, space
\* as "+") and decodes to the trimmed address, the trimmed name, the
\* formatted amount and the currency; and ("shop@upi", "My Shop", 150.0,
\* "INR", "") gives exactly
\* upi://pay?pa=shop%40upi&pn=My+Shop&am=150.00&cu=INR.
C3_UriShape ==
    Returned =>
        LET uri == ret.uri
            keys == KeysOf(uri)
            vals == ValuesOf(uri)
        IN  /\ Len(uri) >= Len(UpiPrefix)
            /\ SubSeq(uri, 1, Len(UpiPrefix)) = UpiPrefix
            /\ \/ keys = <<K_pa, K_pn, K_am, K_cu>>
               \/ keys = <<K_pa, K_pn, K_am, K_cu, K_tn>>
            /\ \A k \in 1..Len(vals) :
                   /\ IsQueryEncoded(vals[k])
                   /\ ~Contains(vals[k], "@")
                   /\ ~Contains(vals[k], " ")
            /\ unquote_plus(vals[1]) = strip(args.upi_id)
            /\ Count(vals[1], "%") = Count(args.upi_id, "@")
            /\ unquote_plus(vals[2]) = strip(args.name)
            /\ Count(vals[2], "+") = Count(strip(args.name), " ")
            /\ unquote_plus(vals[3]) = FormatAmount(args.amount)
            /\ unquote_plus(vals[4]) = args.currency
            /\ (args = ExampleArgs => uri = ExampleUri)

\* C3 witness: the call of the concrete scenario returned its URI.
C3_Witness ==
    /\ pc = "done"
    /\ args = ExampleArgs
    /\ ret.uri = ExampleUri

HasTn(uri) == \E k \in 1..Len(KeysOf(uri)) : KeysOf(uri)[k] = K_tn

\* Arguments that are unobjectionable in themselves: a finite amount, an
\* address of the shape account@handle, a note that is empty or has text.
\* Each of C4, C5 and C6 is stated for calls whose other arguments are so.
FiniteAmount == args.amount.cls = "finite"
ProperAddress ==
    LET a == strip(args.upi_id)
    IN  Count(a, "@") = 1 /\ a[1] # "@" /\ a[Len(a)] # "@"
PlainNote == args.note = <<>> \/ strip(args.note) # <<>>

\* C4: a returned URI contains a tn parameter if and only if the note is
\* non-empty after trimming; an empty or whitespace-only note yields no tn,
\* any other note yields tn with the trimmed, encoded note.
C4_TnIffTrimmedNoteNonEmpty ==
    (Returned /\ FiniteAmount /\ ProperAddress) =>
        /\ HasTn(ret.uri) <=> (strip(args.note) # <<>>)
        /\ HasTn(ret.uri) =>
               unquote_plus(ValuesOf(ret.uri)[5]) = strip(args.note)

\* What the code does instead (line 74 tests the note before trimming it):
\* tn is present exactly when the untrimmed note is non-empty, and then
\* carries the trimmed note, which may be empty.
C4_TnIffNoteNonEmpty ==
    Returned =>
        /\ HasTn(ret.uri) <=> (args.note # <<>>)
        /\ HasTn(ret.uri) =>
               unquote_plus(ValuesOf(ret.uri)[5]) = strip(args.note)

\* A whitespace-only note produced an empty tn parameter.
C4_BlankNoteState ==
    /\ Returned
    /\ args.note = <<" ">>
    /\ HasTn(ret.uri)
    /\ ValuesOf(ret.uri)[5] = <<>>

\* A numeral with at least one digit, a point, and exactly two digits.
IsTwoDecimalNumeral(s) ==
    /\ Len(s) >= 4
    /\ s[Len(s) - 2] = "."
    /\ \A i \in 1..Len(s) : i # Len(s) - 2 => s[i] \in Digits

DigitValue(c) == CHOOSE k \in 0..9 : DigitChars[k + 1] = c

\* The value of a digit string.
RECURSIVE NatOf(_)
NatOf(s) ==
    IF Len(s) = 0 THEN 0
    ELSE 10 * NatOf(SubSeq(s, 1, Len(s) - 1)) + DigitValue(s[Len(s)])

\* The value, in hundredths, of a two-decimal numeral.
HundredthsOf(s) ==
    100 * NatOf(SubSeq(s, 1, Len(s) - 3)) + NatOf(SubSeq(s, Len(s) - 1, Len(s)))

\* Whether h hundredths is a nearest hundredth to n sixteenths:
\* |h/100 - n/16| <= 1/200.
IsNearestHundredth(h, n) ==
    LET d == 16 * h - 100 * n
    IN  -8 <= d /\ d <= 8

\* C5: for every amount the call accepts, the am value of the returned URI
\* is a numeral with exactly two digits after the decimal point, equal to
\* the amount rounded to two decimal places.
C5_AmTwoDecimals ==
    (Returned /\ ProperAddress /\ PlainNote) =>
        LET am == ValuesOf(ret.uri)[3]
        IN  /\ IsTwoDecimalNumeral(am)
            /\ args.amount.cls = "finite"  \* only a finite float has a rounding
            /\ IsNearestHundredth(HundredthsOf(am), args.amount.n)

\* The same for the finite amounts alone, which is what the code achieves.
C5_FiniteAmTwoDecimals ==
    (Returned /\ args.amount.cls = "finite") =>
        LET am == ValuesOf(ret.uri)[3]
        IN  /\ IsTwoDecimalNumeral(am)
            /\ IsNearestHundredth(HundredthsOf(am), args.amount.n)

\* C6: a URI is returned only for a payee address that is non-empty and
\* contains exactly one "@" separating an account identifier from a handle,
\* and the pa value of the returned URI, trimmed, has that shape.
C6_ExactlyOneAt ==
    (Returned /\ FiniteAmount /\ PlainNote) =>
        LET pa == strip(unquote_plus(ValuesOf(ret.uri)[1]))
        IN  /\ args.upi_id # <<>>
            /\ Count(args.upi_id, "@") = 1
            /\ Count(pa, "@") = 1
            /\ pa[1] # "@"
            /\ pa[Len(pa)] # "@"

\* What the code guarantees instead: at least one "@".
C6_AtLeastOneAt ==
    Returned =>
        LET pa == strip(unquote_plus(ValuesOf(ret.uri)[1]))
        IN  /\ args.upi_id # <<>>
            /\ Count(args.upi_id, "@") >= 1
            /\ Count(pa, "@") >= 1

\* C9: decoding the query string of a returned URI into key/value pairs and
\* encoding those pairs again reproduces the query string character for
\* character.
C9_QueryRoundTrip ==
    Returned => urlencode(parse_qsl(QueryOf(ret.uri))) = QueryOf(ret.uri)

\* C9 witness: a URI was returned for a name and a note that both need
\* escaping, and its query decodes to five pairs.
C9_Witness ==
    /\ Returned
    /\ args.name = <<" ","a","&","=","%"," ">>
    /\ args.note = <<"n","&">>
    /\ Len(parse_qsl(QueryOf(ret.uri))) = 5
    /\ parse_qsl(QueryOf(ret.uri))[5] = <<K_tn, <<"n","&">>>>

----------------------------------------------------------------------------
(* QRService.create_qr                                                     *)
(*                                                                         *)
(* The qrcode library is called with version=None, ERROR_CORRECT_H,        *)
(* box_size=10, border=4 and make(fit=True).  What the library does with   *)
(* them is modelled for data it stores as a single 8-bit-byte segment      *)
(* (ASCII text with no run of 20 or more digits or upper-case              *)
(* alphanumerics, which it would split off into other modes).              *)

\* error_correction=qrcode.constants.ERROR_CORRECT_H
error_correction == "H"

\* box_size=10: pixels per module.
box_size == 10

\* border=4: quiet-zone modules on each side.
border == 4

\* Data codewords of versions 1..40 at level H (ISO/IEC 18004, table 7);
\* the library's bit limit of a version is eight times this.
DataCodewordsH ==
    <<9, 16, 26, 36, 46, 60, 66, 86, 100, 122,
      140, 158, 180, 197, 223, 253, 283, 313, 341, 385,
      406, 442, 464, 514, 538, 596, 628, 661, 701, 745,
      793, 845, 901, 961, 986, 1054, 1096, 1142, 1222, 1276>>

Versions == 1..Len(DataCodewordsH)

BitLimit(version) == 8 * DataCodewordsH[version]

\* Bits of a byte-mode segment of n bytes at a version: 4 mode bits, a
\* length field of 8 bits up to version 9 and 16 from version 10, 8n data.
NeededBits(n, version) == 4 + (IF version < 10 THEN 8 ELSE 16) + 8 * n

\* bisect_left(BIT_LIMIT_TABLE[H], needed, start): the least version from
\* start whose limit is at least needed, or one past the last version.
BisectLeft(needed, start) ==
    LET ok == {v \in Versions : v >= start /\ BitLimit(v) >= needed}
    IN  IF ok = {} THEN Len(DataCodewordsH) + 1
        ELSE CHOOSE v \in ok : \A w \in ok : v <= w

\* QRCode.best_fit: the version found for the length field of start, found
\* again when the version found has a wider length field; one past the last
\* version when nothing fits (DataOverflowError).
RECURSIVE best_fit(_, _)
best_fit(n, start) ==
    LET version == BisectLeft(NeededBits(n, start), start)
    IN  IF version > Len(DataCodewordsH) THEN version
        ELSE IF (version < 10) # (start < 10) THEN best_fit(n, version)
        ELSE version

\* modules_count of a version.
ModulesCount(version) == 17 + 4 * version

\* A variant that draws no quiet zone.
ImageSideNoBorder(version) == ModulesCount(version) * box_size

\* Width and height, in pixels, of the image make_image draws.
ImageSide(version) == (ModulesCount(version) + 2 * border) * box_size

RaiseQr(msg) == [kind |-> "error", png |-> <<>>, msg |-> msg, computed |-> TRUE]

\* The PNG written to the buffer, by what it decodes to: an RGB image of
\* the symbol of `d` in the fill colour on the back colour.
Png(d, version) ==
    [format |-> "PNG", mode |-> "RGB", ec |-> error_correction,
     version |-> version, side |-> ImageSide(version),
     width |-> ImageSide(version), height |-> ImageSide(version),
     fill |-> "#0f172a", back |-> "white", text |-> d]

\* The body of create_qr, lines 29-47: an uncached render.
Render(d) ==
    LET version == best_fit(Len(d), 1)
    IN  IF version > Len(DataCodewordsH) THEN RaiseQr("DataOverflowError")
        ELSE [kind |-> "png", png |-> Png(d, version), msg |-> "",
              computed |-> TRUE]

\* A variant that keys the cache on the length of the string.
CacheKeyByLength(d) == Len(d)

\* st.cache_data keys an entry on the value of the argument.
CacheKey(d) == d

\* create_qr under @st.cache_data: a stored value is returned without
\* running the body; otherwise the body runs, and what it returns is stored
\* (an exception is not).  The new cache comes with the outcome.
create_qr(c, d) ==
    IF CacheKey(d) \in DOMAIN c
    THEN [out |-> [kind |-> "png", png |-> c[CacheKey(d)], msg |-> "",
                   computed |-> FALSE],
          cache |-> c]
    ELSE LET r == Render(d)
         IN  [out |-> r,
              cache |-> IF r.kind = "png"
                        THEN (CacheKey(d) :> r.png) @@ c
                        ELSE c]

----------------------------------------------------------------------------
(* Specification of the renderer: any sequence of create_qr calls *)

\* The longest byte string a version holds at level H.
Capacity(version) ==
    (BitLimit(version) - 4 - (IF version < 10 THEN 8 ELSE 16)) \div 8

\* Strings at and just past the capacity of every version.
BoundaryInputs ==
    {Rep("a", Capacity(v)) : v \in Versions}
        \cup {Rep("a", Capacity(v) + 1) : v \in Versions}

\* Strings called again and again: pairs of equal length, and one too long.
RepeatInputs ==
    {<<"a">>, <<"b">>, Rep("a", 8), Rep("b", 8),
     Rep("b", Capacity(Len(DataCodewordsH)) + 1)}

BuildIdle ==
    /\ args = NoArgs
    /\ ret = NoRet

InitRender ==
    /\ pc = "qr_call"
    /\ data \in BoundaryInputs \cup RepeatInputs
    /\ cache = <<>>
    /\ img = NoImg
    /\ BuildIdle
    /\ AppIdle

CreateQr ==
    /\ pc = "qr_call"
    /\ img' = create_qr(cache, data).out
    /\ cache' = create_qr(cache, data).cache
    /\ pc' = "qr_done"
    /\ UNCHANGED <<args, ret, data, upi_cfg, widgets, run>>

NextCall ==
    /\ pc = "qr_done"
    /\ data' \in RepeatInputs
    /\ img' = NoImg
    /\ pc' = "qr_call"
    /\ UNCHANGED <<args, ret, cache, upi_cfg, widgets, run>>

NextRender == CreateQr \/ NextCall

SpecRender == InitRender /\ [][NextRender]_vars

----------------------------------------------------------------------------
(* Claims about QRService.create_qr *)

\* C8: the cache is keyed on the exact input string and does not alter the
\* returned bytes: after any sequence of calls the bytes returned for a
\* string equal those of an uncached render of it, and no other string
\* would be served an entry stored for a different string.
C8_CacheTransparent ==
    /\ (pc = "qr_done" /\ img.kind = "png") => img.png = Render(data).png
    /\ (pc = "qr_done" /\ img.kind = "error") => Render(data).kind = "error"
    /\ \A d \in RepeatInputs \cup {data} :
           create_qr(cache, d).out.kind = Render(d).kind
           /\ create_qr(cache, d).out.png = Render(d).png

\* C8 witness: a call was served from the cache while the cache also held
\* an entry for another string of the same length.
C8_Witness ==
    /\ pc = "qr_done"
    /\ img.kind = "png"
    /\ ~img.computed
    /\ data = Rep("b", 8)
    /\ CacheKey(Rep("a", 8)) \in DOMAIN cache
    /\ img.png.text = data

\* C10: every non-empty string create_qr renders is drawn at error
\* correction level H in the smallest version that holds it, with a border
\* of 4 modules and 10 pixels per module: the PNG returned is non-empty and
\* its width and height both equal (moduleCount + 2*4) * 10.
C10_RenderGeometry ==
    (pc = "qr_done" /\ img.kind = "png" /\ data # <<>>) =>
        LET p == img.png
            n == Len(data)
            Fits(v) == NeededBits(n, v) <= BitLimit(v)
        IN  /\ p.format = "PNG"
            /\ p.ec = "H"
            /\ p.version \in Versions
            /\ Fits(p.version)
            /\ \A v \in Versions : v < p.version => ~Fits(v)
            /\ p.width = ((17 + 4 * p.version) + 2 * 4) * 10
            /\ p.height = p.width
            /\ p.width > 0

\* C10 witness: a string one byte too long for version 9 was rendered at
\* version 10, 650 pixels wide.
C10_Witness ==
    /\ pc = "qr_done"
    /\ img.kind = "png"
    /\ Len(data) = 99
    /\ img.png.version = 10
    /\ img.png.width = 650

----------------------------------------------------------------------------
(* main: the form and its "Generate QR Code" button                        *)
(*                                                                         *)
(* Streamlit runs the script from the top on every interaction.  A run     *)
(* started by editing a widget finds st.button False and puts no result on *)
(* the page; a run started by the button executes the try block.  The      *)
(* st.cache_data store outlives the runs.                                  *)

\* Length of a note too long for any QR version.
LongNoteLen == 1300

\* Values MERCHANT_UPI_ID may give DEFAULT_UPI_ID: unset (the literal of
\* line 16), set to the empty string, set to a string without "@".
ConfigUpiIds ==
    {<<"8","7","8","8","0","7","2","1","0","7","@","y","b","l">>,
     <<>>,
     <<"n","o","a","t","s","i","g","n">>}

DefaultMerchant == <<"D","-","P","A","Y"," ","S","t","o","r","e">>

\* st.number_input(min_value=1.0, step=10.0) starts at its minimum.
DefaultAmount == Finite(16)

DefaultWidgets ==
    [merchant |-> DefaultMerchant, amount |-> DefaultAmount, note |-> <<>>]

\* What the user may leave in the widgets; the amount never goes below 1.0.
AppWidgets ==
    [merchant : {DefaultMerchant},
     amount : {DefaultAmount, Finite(178)},
     note : {<<>>, <<"h","i">>, Rep("n", LongNoteLen)}]

\* A variant of the except clause that catches ValueError alone.
CatchesValueErrorOnly(exc) == exc = "ValueError"

\* except Exception: every exception the try block raises is caught.
Catches(exc) == exc \in {"ValueError", "DataOverflowError"}

\* The page after an exception of type exc with text msg left the try
\* block: st.error(str(e)) when caught, Streamlit's own traceback if not.
AfterException(exc, msg, b, called, q) ==
    [clicked |-> TRUE, built |-> b, qr_called |-> called, qr |-> q,
     error_shown |-> Catches(exc),
     error |-> IF Catches(exc) THEN msg ELSE "",
     image_shown |-> FALSE, image |-> <<>>,
     download_shown |-> FALSE, download |-> <<>>,
     crashed |-> ~Catches(exc)]

\* Lines 155-182: the run of the script with the button pressed, for the
\* configured address cfg, widget values w and cache c; the page it leaves
\* and the cache after it.
RunClick(cfg, w, c) ==
    LET b == build_upi_payload(cfg, w.merchant, w.amount, INR, w.note)
    IN  IF b.kind = "error"
        THEN [page |-> AfterException("ValueError", b.msg, b, FALSE, NoImg),
              cache |-> c]
        ELSE LET q == create_qr(c, b.uri)
             IN  IF q.out.kind = "error"
                 THEN [page |-> AfterException(q.out.msg, q.out.msg, b,
                                               TRUE, q.out),
                       cache |-> q.cache]
                 ELSE [page |->
                          [clicked |-> TRUE, built |-> b, qr_called |-> TRUE,
                           qr |-> q.out, error_shown |-> FALSE, error |-> "",
                           image_shown |-> TRUE, image |-> q.out.png,
                           download_shown |-> TRUE, download |-> q.out.png,
                           crashed |-> FALSE],
                       cache |-> q.cache]

InitApp ==
    /\ pc = "form"
    /\ upi_cfg \in ConfigUpiIds
    /\ widgets = DefaultWidgets
    /\ run = NoRun
    /\ cache = <<>>
    /\ data = <<>>
    /\ img = NoImg
    /\ BuildIdle

\* The user changes the form: a run without the button, no result shown.
Edit ==
    /\ pc = "form"
    /\ \E w \in AppWidgets :
           /\ w # widgets
           /\ widgets' = w
    /\ run' = [run EXCEPT !.page = NoPage]
    /\ UNCHANGED <<pc, args, ret, data, cache, img, upi_cfg>>

\* The user presses "Generate QR Code".
Click ==
    /\ pc = "form"
    /\ LET r == RunClick(upi_cfg, widgets, cache)
       IN  /\ run' = [page |-> r.page,
                      had_error |-> run.had_error \/ r.page.error_shown]
           /\ cache' = r.cache
    /\ UNCHANGED <<pc, args, ret, data, img, upi_cfg, widgets>>

NextApp == Edit \/ Click

SpecApp == InitApp /\ [][NextApp]_vars

----------------------------------------------------------------------------
(* Claims about main *)

\* C7: on every click, an error raised by build_upi_payload or by
\* create_qr is caught and shown as an inline error message, with no image
\* and no download button for that click; create_qr is not called when
\* build_upi_payload failed; and the form stays usable, so that whatever
\* happened before, a click whose input is valid shows the image and the
\* download.  (Click is enabled in every state; what a click shows is
\* decided by the inputs at that click alone.)
C7_ErrorsShownInline ==
    run.page.clicked =>
        LET p == run.page
            b == build_upi_payload(upi_cfg, widgets.merchant, widgets.amount,
                                   INR, widgets.note)
        IN  /\ ~p.crashed
            /\ p.built = b
            /\ b.kind = "error" =>
                   /\ ~p.qr_called
                   /\ p.error_shown /\ p.error = b.msg
                   /\ ~p.image_shown /\ ~p.download_shown
            /\ b.kind = "uri" =>
                   /\ p.qr_called
                   /\ p.qr.kind = Render(b.uri).kind
            /\ p.qr.kind = "error" =>
                   /\ p.error_shown
                   /\ ~p.image_shown /\ ~p.download_shown
            /\ (b.kind = "uri" /\ Render(b.uri).kind = "png") =>
                   /\ ~p.error_shown
                   /\ p.image_shown /\ p.download_shown
                   /\ p.image = Render(b.uri).png
                   /\ p.download = p.image

\* C7 witness: after a click that showed an error, a click with a note
\* that fits shows the image and the download.
C7_Witness ==
    /\ run.had_error
    /\ run.page.clicked
    /\ widgets.note = <<"h","i">>
    /\ run.page.image_shown
    /\ run.page.download_shown
    /\ ~run.page.error_shown

\* A click with a misconfigured address showed "Invalid UPI ID" and never
\* reached create_qr.
C7_BuildErrorState ==
    /\ run.page.clicked
    /\ run.page.error_shown
    /\ run.page.error = "Invalid UPI ID"
    /\ ~run.page.qr_called
=============================================================================
